---- MODULE Spec2Model ----
(***************************************************************************)
(* A model of the vocabulary/complexity analysis engine of                 *)
(* Advanced-Text-Analyser (src/vocabulary_analysis.py).                    *)
(*                                                                         *)
(* A text is a sequence of one-character strings.  Python floats are       *)
(* modelled as exact rationals [num, den] (den > 0); a value produced by   *)
(* round(x, 1) is kept as an integer number of tenths.  The process-global *)
(* generator of the random module is the variable rng.                     *)
(***************************************************************************)
EXTENDS Integers, Sequences, FiniteSets, TLC

VARIABLES
    text,     \* the text handed to the engine in this behaviour
    rng,      \* state of the process-global random generator (module random)
    out,      \* the most recent call: [op, arg, status, ret]
    score,    \* a complexity score handed to the level classification
    gen,      \* the running call of generate_topic_based_text, if any
    press,    \* the running "Generate Text" button handler of the app, if any
    session   \* st.session_state of the app

vars == <<text, rng, out, score, gen, press, session>>

(***************************************************************************)
(* Characters                                                              *)
(***************************************************************************)
LowerLetters ==
    <<"a","b","c","d","e","f","g","h","i","j","k","l","m",
      "n","o","p","q","r","s","t","u","v","w","x","y","z">>

UpperLetters ==
    <<"A","B","C","D","E","F","G","H","I","J","K","L","M",
      "N","O","P","Q","R","S","T","U","V","W","X","Y","Z">>

Digits == {"0","1","2","3","4","5","6","7","8","9"}

Range(s) == { s[i] : i \in DOMAIN s }

\* the lower-case letter of each upper-case letter
LowerOf == [c \in Range(UpperLetters) |->
              LowerLetters[CHOOSE i \in DOMAIN UpperLetters : UpperLetters[i] = c]]

\* str.lower() on one character
LowerChar(c) == IF c \in DOMAIN LowerOf THEN LowerOf[c] ELSE c

\* str.lower()
lower(s) == [i \in DOMAIN s |-> LowerChar(s[i])]

\* the regular expression class \w
WordChars == Range(LowerLetters) \cup Range(UpperLetters) \cup Digits \cup {"_"}

IsWordChar(c) == c \in WordChars

\* the regular expression class \s
IsSpace(c) == c \in {" ", "\t", "\n"}

\* the character class [.!?]
IsTerminal(c) == c \in {".", "!", "?"}

(***************************************************************************)
(* Tokenizer and sentence splitter                                         *)
(***************************************************************************)
\* the indices of s, in order
Indices(s) == [i \in 1..Len(s) |-> i]

RECURSIVE RunEnd(_, _)
\* the last index of the run of word characters of s that holds index i
RunEnd(s, i) ==
    IF i < Len(s) /\ IsWordChar(s[i + 1]) THEN RunEnd(s, i + 1) ELSE i

\* re.findall(r'\b\w+\b', s): the maximal runs of word characters, in order
findall_words(s) ==
    LET starts == SelectSeq(Indices(s),
                     LAMBDA i : IsWordChar(s[i]) /\ (i = 1 \/ ~IsWordChar(s[i - 1])))
    IN  [k \in DOMAIN starts |-> SubSeq(s, starts[k], RunEnd(s, starts[k]))]

tokenize_text(t) == findall_words(lower(t))

RECURSIVE SkipSpace(_, _)
\* the first index >= i of s that holds no whitespace (Len(s)+1 if none)
SkipSpace(s, i) ==
    IF i <= Len(s) /\ IsSpace(s[i]) THEN SkipSpace(s, i + 1) ELSE i

\* re.split(r'(?<=[.!?])\s+', s): cut at every whitespace run that directly
\* follows '.', '!' or '?'; empty pieces are kept
split_after_terminal(s) ==
    LET cuts == SelectSeq(Indices(s),
                   LAMBDA i : IsSpace(s[i]) /\ i > 1 /\ IsTerminal(s[i - 1]))
        n    == Len(cuts)
    IN  [k \in 1..(n + 1) |->
            SubSeq(s, IF k = 1 THEN 1 ELSE SkipSpace(s, cuts[k - 1]),
                      IF k = n + 1 THEN Len(s) ELSE cuts[k] - 1)]

sentence_tokenize(t) == split_after_terminal(t)

(***************************************************************************)
(* Syllable estimator                                                      *)
(***************************************************************************)
Vowels == {"a", "e", "i", "o", "u", "y"}

\* str.endswith
endswith(w, suffix) ==
    /\ Len(w) >= Len(suffix)
    /\ SubSeq(w, Len(w) - Len(suffix) + 1, Len(w)) = suffix

\* count_syllables without the minimum of 1
count_syllables_unclamped(word0) ==
    LET word == lower(word0)
        c1 == IF word[1] \in Vowels THEN 1 ELSE 0
        c2 == c1 + Cardinality({ index \in 2..Len(word) :
                    word[index] \in Vowels /\ word[index - 1] \notin Vowels })
        c3 == IF endswith(word, <<"e">>) THEN c2 - 1 ELSE c2
    IN  IF endswith(word, <<"l", "e">>) THEN c3 + 1 ELSE c3

count_syllables(word0) ==
    LET word == lower(word0)
        c1 == IF word[1] \in Vowels THEN 1 ELSE 0
        c2 == c1 + Cardinality({ index \in 2..Len(word) :
                    word[index] \in Vowels /\ word[index - 1] \notin Vowels })
        c3 == IF endswith(word, <<"e">>) THEN c2 - 1 ELSE c2
        c4 == IF endswith(word, <<"l", "e">>) THEN c3 + 1 ELSE c3
    IN  IF c4 = 0 THEN c4 + 1 ELSE c4

RECURSIVE SumSeq(_)
\* sum(s), adding up the two halves of s
SumSeq(s) ==
    IF s = <<>> THEN 0
    ELSE IF Len(s) = 1 THEN s[1]
    ELSE LET half == Len(s) \div 2
         IN  SumSeq(SubSeq(s, 1, half)) + SumSeq(SubSeq(s, half + 1, Len(s)))

\* sum(count_syllables(word) for word in words)
total_syllables(words) ==
    SumSeq([i \in DOMAIN words |-> count_syllables(words[i])])

(***************************************************************************)
(* Arithmetic on floats, kept exact                                        *)
(***************************************************************************)
Min(a, b) == IF a < b THEN a ELSE b

\* a rational number num/den, den > 0
Rat(n, d) == [num |-> n, den |-> d]

\* round(n/d, 0) for d > 0: to the nearest integer, a tie to the even one
RoundDiv(n, d) ==
    LET q == n \div d
        r == n % d
    IN  IF 2 * r > d THEN q + 1
        ELSE IF 2 * r < d THEN q
        ELSE IF q % 2 = 0 THEN q ELSE q + 1

RECURSIVE IsqrtBetween(_, _, _)
\* the largest r in lo..hi with r * r <= n, by bisection
IsqrtBetween(n, lo, hi) ==
    IF lo = hi THEN lo
    ELSE LET mid == (lo + hi + 1) \div 2
         IN  IF mid * mid <= n THEN IsqrtBetween(n, mid, hi)
                               ELSE IsqrtBetween(n, lo, mid - 1)

\* floor of math.sqrt(n) for an integer 0 <= n < 2^31 (46340^2 < 2^31)
Isqrt(n) == IsqrtBetween(n, 0, Min(n, 46340))

(***************************************************************************)
(* Readability calculators; each returns tenths (round(x, 1) * 10)         *)
(***************************************************************************)
\* the SMOG index is computed from 30 sentences on
SmogMinSentences == 30

calculate_flesch_kincaid_grade(t) ==
    LET sentences == Len(sentence_tokenize(t))
        words     == Len(tokenize_text(t))
        syllables == total_syllables(tokenize_text(t))
    IN  IF sentences = 0 \/ words = 0
        THEN 0
        ELSE \* 0.39 * (words / sentences) + 11.8 * (syllables / words) - 15.59
             RoundDiv(39 * words * words + 1180 * syllables * sentences
                        - 1559 * sentences * words,
                      10 * sentences * words)

calculate_flesch_reading_ease(t) ==
    LET sentences == Len(sentence_tokenize(t))
        words     == Len(tokenize_text(t))
        syllables == total_syllables(tokenize_text(t))
    IN  IF sentences = 0 \/ words = 0
        THEN 0
        ELSE \* 206.835 - 1.015 * (words / sentences) - 84.6 * (syllables / words)
             RoundDiv(206835 * sentences * words - 1015 * words * words
                        - 84600 * syllables * sentences,
                      100 * sentences * words)

calculate_gunning_fog_index(t) ==
    LET sentences == Len(sentence_tokenize(t))
        words     == tokenize_text(t)
        complex_words ==
            Cardinality({ i \in DOMAIN words : count_syllables(words[i]) > 2 })
    IN  IF sentences = 0 \/ Len(words) = 0
        THEN 0
        ELSE \* 0.4 * ((words / sentences) + 100 * (complex_words / words))
             RoundDiv(4 * Len(words) * Len(words) + 400 * complex_words * sentences,
                      sentences * Len(words))

\* calculate_smog_index with the guard off by one (len(sentences) < 29)
calculate_smog_index_off_by_one(t) ==
    LET sentences == sentence_tokenize(t)
        words     == tokenize_text(t)
        polysyllables ==
            Cardinality({ i \in DOMAIN words : count_syllables(words[i]) >= 3 })
    IN  IF Len(sentences) < SmogMinSentences - 1
        THEN 0
        ELSE LET root == Isqrt((polysyllables * 30 * 1000000) \div Len(sentences))
             IN  RoundDiv(1043 * root + 3129100, 100000)

calculate_smog_index(t) ==
    LET sentences == sentence_tokenize(t)
        words     == tokenize_text(t)
        polysyllables ==
            Cardinality({ i \in DOMAIN words : count_syllables(words[i]) >= 3 })
    IN  IF Len(sentences) < SmogMinSentences
        THEN 0
        ELSE \* 1.0430 * sqrt(polysyllables * (30 / sentences)) + 3.1291,
             \* the square root taken to three decimals
             LET root == Isqrt((polysyllables * 30 * 1000000) \div Len(sentences))
             IN  RoundDiv(1043 * root + 3129100, 100000)

(***************************************************************************)
(* Outcomes of a call: a returned value or a raised exception              *)
(***************************************************************************)
Ok(v)     == [status |-> "ok", ret |-> v]
Raise(e)  == [status |-> e, ret |-> "none"]

(***************************************************************************)
(* Lexical diversity calculators                                           *)
(***************************************************************************)
\* calculate_ttr without the set(): len(words) / len(words)
calculate_ttr_without_set(t) ==
    LET words == tokenize_text(t)
    IN  IF Len(words) = 0
        THEN Raise("ZeroDivisionError")
        ELSE Ok(Rat(Len(words), Len(words)))

\* len(set(words)) / len(words); Python raises ZeroDivisionError on / 0
calculate_ttr(t) ==
    LET words == tokenize_text(t)
    IN  IF Len(words) = 0
        THEN Raise("ZeroDivisionError")
        ELSE Ok(Rat(Cardinality(Range(words)), Len(words)))

\* the type-token-ratio threshold at which a factor closes, in hundredths
MtldThreshold == 72

\* one pass of the body of the for loop of calculate_mtld on the loop state
\* <<factor_count, sum(factor_lengths), current_factor>>
MtldStep(st, word) ==
    LET cur == Append(st[3], word)
    IN  IF 100 * Cardinality(Range(cur)) <= MtldThreshold * Len(cur)
        THEN <<st[1] + 1, st[2] + Len(cur), <<>> >>
        ELSE <<st[1], st[2], cur>>

RECURSIVE MtldScan(_, _, _, _)
\* the for loop of calculate_mtld over words[lo..hi] from loop state st:
\* the first half of the words, then the second half
MtldScan(words, lo, hi, st) ==
    IF lo > hi THEN st
    ELSE IF lo = hi THEN MtldStep(st, words[lo])
    ELSE LET mid  == (lo + hi) \div 2
             left == MtldScan(words, lo, mid, st)
         IN  \* the state after the first half is computed before the second
             IF left[1] >= 0 THEN MtldScan(words, mid + 1, hi, left) ELSE left

\* calculate_mtld dividing all tokens, the unclosed window included, by the
\* number of factors
calculate_mtld_with_remainder(t) ==
    LET words == tokenize_text(t)
        scan  == MtldScan(words, 1, Len(words), <<0, 0, <<>> >>)
    IN  IF scan[1] = 0
        THEN Rat(Len(words), 1)
        ELSE Rat(Len(words), scan[1])

calculate_mtld(t) ==
    LET words == tokenize_text(t)
        scan  == MtldScan(words, 1, Len(words), <<0, 0, <<>> >>)
    IN  IF scan[1] = 0
        THEN Rat(Len(words), 1)
        ELSE Rat(scan[2], scan[1])

(***************************************************************************)
(* Syntactic metrics                                                       *)
(***************************************************************************)
calculate_avg_sentence_length(t) ==
    LET sentences == sentence_tokenize(t)
        words     == tokenize_text(t)
    IN  IF sentences # <<>> THEN Rat(Len(words), Len(sentences)) ELSE Rat(0, 1)

clause_markers ==
    << <<"a","n","d">>, <<"b","u","t">>, <<"b","e","c","a","u","s","e">>,
       <<"i","f">>, <<"w","h","e","n">>, <<"w","h","i","l","e">>,
       <<"a","l","t","h","o","u","g","h">>, <<"a","s">>,
       <<"s","i","n","c","e">>, <<"u","n","l","e","s","s">>,
       <<"t","h","o","u","g","h">>, <<"w","h","e","r","e","a","s">>,
       <<"w","h","e","t","h","e","r">> >>

\* the Python test "marker in s" on strings: marker occurs as a substring
Contains(s, marker) ==
    \E k \in 1..(Len(s) - Len(marker) + 1) :
        SubSeq(s, k, k + Len(marker) - 1) = marker

\* sentence_clauses counting every occurrence of a marker
sentence_clauses_per_occurrence(sentence) ==
    Cardinality({ mk \in (DOMAIN clause_markers) \X (1..Len(sentence)) :
                    /\ mk[2] + Len(clause_markers[mk[1]]) - 1 <= Len(sentence)
                    /\ SubSeq(lower(sentence), mk[2],
                              mk[2] + Len(clause_markers[mk[1]]) - 1)
                           = clause_markers[mk[1]] }) + 1

\* sum(1 for marker in clause_markers if marker in sentence.lower()) + 1
sentence_clauses(sentence) ==
    Cardinality({ m \in DOMAIN clause_markers :
                    Contains(lower(sentence), clause_markers[m]) }) + 1

calculate_clause_density(t) ==
    LET sentences == sentence_tokenize(t)
        clause_count ==
            SumSeq([i \in DOMAIN sentences |-> sentence_clauses(sentences[i])])
    IN  IF sentences # <<>> THEN Rat(clause_count, Len(sentences)) ELSE Rat(0, 1)

(***************************************************************************)
(* Rule-based part-of-speech tagger                                        *)
(***************************************************************************)
Determiners == { <<"t","h","e">>, <<"a">>, <<"a","n">> }

BeForms == { <<"i","s">>, <<"a","m">>, <<"a","r","e">>, <<"w","a","s">>,
             <<"w","e","r","e">> }

Pronouns == { <<"i">>, <<"y","o","u">>, <<"h","e">>, <<"s","h","e">>,
              <<"i","t">>, <<"w","e">>, <<"t","h","e","y">> }

\* pos_tag with an adjective rule: a word ending in 'ed' is tagged JJ
pos_tag_with_adjectives(word) ==
    IF word \in Determiners THEN "DT"
    ELSE IF word \in BeForms THEN "VB"
    ELSE IF endswith(word, <<"l","y">>) THEN "RB"
    ELSE IF endswith(word, <<"e","d">>) THEN "JJ"
    ELSE IF endswith(word, <<"i","n","g">>) THEN "VBG"
    ELSE IF word \in Pronouns THEN "PRP"
    ELSE "NN"

\* the tag one word gets: the if/elif chain of simple_pos_tagger
pos_tag(word) ==
    IF word \in Determiners THEN "DT"
    ELSE IF word \in BeForms THEN "VB"
    ELSE IF endswith(word, <<"l","y">>) THEN "RB"
    ELSE IF endswith(word, <<"e","d">>) THEN "VBD"
    ELSE IF endswith(word, <<"i","n","g">>) THEN "VBG"
    ELSE IF word \in Pronouns THEN "PRP"
    ELSE "NN"

\* the list of (word, tag) pairs
simple_pos_tagger(t) ==
    LET words == tokenize_text(t)
    IN  [i \in DOMAIN words |-> <<words[i], pos_tag(words[i])>>]

\* collections.Counter over a sequence: element -> number of occurrences
Counter(s) ==
    [x \in Range(s) |-> Cardinality({ i \in DOMAIN s : s[i] = x })]

\* calculate_pos_distribution counting each distinct (word, tag) pair once
calculate_pos_distribution_of_set(t) ==
    LET pos_tags == simple_pos_tagger(t)
        pairs    == Range(pos_tags)
    IN  [tag \in { p[2] : p \in pairs } |->
            Cardinality({ p \in pairs : p[2] = tag })]

calculate_pos_distribution(t) ==
    LET pos_tags == simple_pos_tagger(t)
    IN  Counter([i \in DOMAIN pos_tags |-> pos_tags[i][2]])

\* dict.get(key, 0)
CountOf(counter, key) == IF key \in DOMAIN counter THEN counter[key] ELSE 0

(***************************************************************************)
(* N-gram counter                                                          *)
(***************************************************************************)
\* the number of bigrams kept in top_bigrams
TopBigramCount == 10

\* ngrams stopping one window early: range(len(words)-n)
ngrams_one_short(words, n) ==
    [i \in 1..(IF Len(words) - n > 0 THEN Len(words) - n ELSE 0)
        |-> SubSeq(words, i, i + n - 1)]

\* [tuple(words[i:i+n]) for i in range(len(words)-n+1)]
ngrams(words, n) ==
    [i \in 1..(IF Len(words) - n + 1 > 0 THEN Len(words) - n + 1 ELSE 0)
        |-> SubSeq(words, i, i + n - 1)]

calculate_ngram_frequency(t, n) == Counter(ngrams(tokenize_text(t), n))

\* index of the first occurrence of x in s
FirstIndex(s, x) == CHOOSE i \in DOMAIN s : s[i] = x /\ \A j \in 1..(i - 1) : s[j] # x

\* Counter.most_common(k) over the n-grams of a text, as a sequence of
\* <<ngram, count>>: descending count, equal counts in order of first
\* occurrence, cut to the first k
most_common(t, n, k) ==
    LET grams == ngrams(tokenize_text(t), n)
        freq  == Counter(grams)
        keys  == DOMAIN freq
        Before(a, b) ==
            \/ freq[a] > freq[b]
            \/ freq[a] = freq[b] /\ FirstIndex(grams, a) < FirstIndex(grams, b)
        rank(a) == Cardinality({ b \in keys : Before(b, a) }) + 1
        m == Min(k, Cardinality(keys))
    IN  [r \in 1..m |->
            LET g == CHOOSE a \in keys : rank(a) = r IN <<g, freq[g]>>]

(***************************************************************************)
(* The process-global generator of module random.  Its state fixes the     *)
(* sequence of raw values it will hand out; the state is modelled as that  *)
(* sequence, of period Len(g): a draw hands out the head and steps on.     *)
(***************************************************************************)
\* the generator after one draw
Step(g) == Append(Tail(g), Head(g))

\* Random._randbelow(n), n >= 1: a value in 0..n-1 taken from the next raw draw
randbelow(g, n) == Head(g) % n

RECURSIVE SampleLoop(_, _, _, _, _, _)
\* the selection loop of random.sample over a pool of n elements:
\*   j = randbelow(n - i); result[i] = pool[j]; pool[j] = pool[n - i - 1]
SampleLoop(pool, n, k, i, result, g) ==
    IF i >= k
    THEN [status |-> "ok", ret |-> result, rng |-> g]
    ELSE LET j == randbelow(g, n - i)
         IN  SampleLoop([pool EXCEPT ![j + 1] = pool[n - i]], n, k, i + 1,
                        Append(result, pool[j + 1]), Step(g))

\* random.sample(population, k) on generator state g: k elements at distinct
\* positions of population, or ValueError unless 0 <= k <= len(population)
sample(population, k, g) ==
    IF ~(0 <= k /\ k <= Len(population))
    THEN [status |-> "ValueError", ret |-> "none", rng |-> g]
    ELSE SampleLoop(population, Len(population), k, 0, <<>>, g)

(***************************************************************************)
(* Cloze generator                                                         *)
(***************************************************************************)
\* the blank marker '_____'
Blank == <<"_", "_", "_", "_", "_">>

\* tag.startswith(('NN', 'VB', 'JJ', 'RB')) over the tags of the tagger
IsContentTag(tag) == tag \in {"NN", "VB", "VBD", "VBG", "JJ", "RB"}

RECURSIVE join(_)
\* ' '.join(items), joining the two halves of items
join(items) ==
    IF items = <<>> THEN <<>>
    ELSE IF Len(items) = 1 THEN items[1]
    ELSE LET half == Len(items) \div 2
         IN  join(SubSeq(items, 1, half)) \o <<" ">>
                \o join(SubSeq(items, half + 1, Len(items)))

\* [word for word, tag in simple_pos_tagger(text) if tag.startswith(...)]
content_words(t) ==
    LET tagged == simple_pos_tagger(t)
        kept   == SelectSeq(tagged, LAMBDA p : IsContentTag(p[2]))
    IN  [i \in DOMAIN kept |-> kept[i][1]]

\* the default of the parameter num_blanks
DefaultNumBlanks == 5

\* generate_cloze_test blanking only the first occurrence of a chosen word
generate_cloze_test_first_only(t, num_blanks0, g) ==
    LET words      == tokenize_text(t)
        content    == content_words(t)
        num_blanks == IF Len(content) < num_blanks0 THEN Len(content)
                      ELSE num_blanks0
        drawn      == sample(content, num_blanks, g)
    IN  IF drawn.status # "ok"
        THEN drawn
        ELSE LET words_to_blank == drawn.ret
                 cloze_text ==
                     join([i \in DOMAIN words |->
                            IF /\ words[i] \in Range(words_to_blank)
                               /\ \A j \in 1..(i - 1) : words[j] # words[i]
                            THEN Blank
                            ELSE words[i]])
             IN  [status |-> "ok",
                  ret    |-> <<cloze_text, words_to_blank>>,
                  rng    |-> drawn.rng]

generate_cloze_test(t, num_blanks0, g) ==
    LET words      == tokenize_text(t)
        content    == content_words(t)
        num_blanks == IF Len(content) < num_blanks0 THEN Len(content)
                      ELSE num_blanks0
        drawn      == sample(content, num_blanks, g)
    IN  IF drawn.status # "ok"
        THEN drawn
        ELSE LET words_to_blank == drawn.ret
                 cloze_text ==
                     join([i \in DOMAIN words |->
                            IF words[i] \in Range(words_to_blank) THEN Blank
                            ELSE words[i]])
             IN  [status |-> "ok",
                  ret    |-> <<cloze_text, words_to_blank>>,
                  rng    |-> drawn.rng]

(***************************************************************************)
(* Level classifier and the analysis entry point                           *)
(***************************************************************************)
\* c < p/q for a rational c and integers p, q > 0 (the products stay below
\* 2^31 when q divides the denominator of c)
LtFrac(c, p, q) ==
    IF c.den % q = 0 THEN c.num < p * (c.den \div q)
    ELSE c.num <= (p * c.den - 1) \div q

\* overall_level with the first comparison inclusive (<= 0.35)
overall_level_inclusive(score_) ==
    IF ~LtFrac(Rat(7, 20), score_.num, score_.den) THEN "A1"
    ELSE IF LtFrac(score_, 11, 20) THEN "A2"
    ELSE IF LtFrac(score_, 3, 4) THEN "B1"
    ELSE "B2"

\* the if/elif chain on complexity_score
overall_level(score_) ==
    IF LtFrac(score_, 7, 20) THEN "A1"           \* complexity_score < 0.35
    ELSE IF LtFrac(score_, 11, 20) THEN "A2"     \* complexity_score < 0.55
    ELSE IF LtFrac(score_, 3, 4) THEN "B1"       \* complexity_score < 0.75
    ELSE "B2"

\* 36000 * readability_score, from the four scores in tenths:
\* (fk_grade / 12 + (100 - flesch_ease) / 100 + gunning_fog / 18 + smog / 18) / 4
readability_score(fk_grade, flesch_ease, gunning_fog, smog) ==
    75 * fk_grade + 9 * (1000 - flesch_ease) + 50 * gunning_fog + 50 * smog

\* complexity_score as a rational over 90000 * tokens * sentences
complexity_score(readability, ttr, avg_sentence_length, clause_density, pos_distribution, tokens) ==
    LET W  == tokens
        S  == avg_sentence_length.den
        D  == ttr.num
        CC == clause_density.num
    IN  Rat(  readability * W * S                            \* readability_score * 0.4
            + 18000 * (W - D) * S                            \* (1 - ttr) * 0.2
            + 900 * Min(avg_sentence_length.num, 20 * S) * W \* min(asl / 20, 1) * 0.2
            + 3000 * Min(CC, 3 * S) * W                      \* min(cd / 3, 1) * 0.1
            + 4500 * CountOf(pos_distribution, "VB") * S     \* VB / tokens * 0.05
            + 4500 * CountOf(pos_distribution, "JJ") * S,    \* JJ / tokens * 0.05
            90000 * W * S)

analyze_vocabulary(t, g) ==
    LET fk_grade     == calculate_flesch_kincaid_grade(t)
        flesch_ease  == calculate_flesch_reading_ease(t)
        gunning_fog  == calculate_gunning_fog_index(t)
        smog         == calculate_smog_index(t)
        ttr          == calculate_ttr(t)
    IN  IF ttr.status # "ok"
        THEN [status |-> ttr.status, ret |-> "none", rng |-> g]
        ELSE
        LET mtld                == calculate_mtld(t)
            avg_sentence_length == calculate_avg_sentence_length(t)
            clause_density      == calculate_clause_density(t)
            pos_distribution    == calculate_pos_distribution(t)
            cloze               == generate_cloze_test(t, DefaultNumBlanks, g)
        IN  IF cloze.status # "ok"
            THEN cloze
            ELSE
            LET cscore == complexity_score(
                            readability_score(fk_grade, flesch_ease, gunning_fog, smog),
                            ttr.ret, avg_sentence_length, clause_density,
                            pos_distribution, Len(tokenize_text(t)))
            IN  [status |-> "ok",
                 rng    |-> cloze.rng,
                 ret    |-> [overall_level        |-> overall_level(cscore),
                             flesch_kincaid_grade |-> fk_grade,
                             flesch_reading_ease  |-> flesch_ease,
                             gunning_fog_index    |-> gunning_fog,
                             smog_index           |-> smog,
                             type_token_ratio     |-> ttr.ret,
                             mtld                 |-> mtld,
                             avg_sentence_length  |-> avg_sentence_length,
                             clause_density       |-> clause_density,
                             pos_distribution     |-> pos_distribution,
                             top_bigrams          |-> most_common(t, 2, TopBigramCount),
                             cloze_test           |-> cloze.ret[1],
                             blanked_words        |-> cloze.ret[2],
                             complexity_score     |-> cscore]]

(***************************************************************************)
(* Inputs                                                                  *)
(***************************************************************************)
\* a text is a concatenation of at most MaxPieces of the pieces below
MaxPieces == 3

\* the raw values of the generator are in 0..MaxDraw-1, its period is MaxDraw
MaxDraw == 2

\* the largest number of blanks a caller requests
MaxBlanks == 2

\* complexity scores handed to the classification are in
\* -MaxScore..MaxScore + 100 hundredths
MaxScore == 50

\* the largest number of tokens of a text handed to calculate_mtld alone
MaxTokens == 6

\* the largest attempt limit a caller or the slider of the app sets
MaxAttempts == 2

\* the longest text written character by character
MaxChars == 5

Pieces ==
    { <<"c","a","t"," ">>,             \* "cat "
      <<"T","h","e"," ">>,             \* "The "
      <<"_","_","_","_","_"," ">>,     \* "_____ "
      <<"i","s","."," ">>,             \* "is. "
      <<"b","a","n","a","n","a">> }    \* "banana"

\* the pieces of the texts handed to the cloze generator on its own
ClozePieces ==
    { <<"c","a","t"," ">>,             \* "cat "
      <<"T","h","e"," ">>,             \* "The "
      <<"_","_","_","_","_"," ">> }    \* "_____ "

\* n copies of s, one after the other
Repeat(s, n) == [i \in 1..(n * Len(s)) |-> s[((i - 1) % Len(s)) + 1]]

\* a passage just short of the SMOG threshold: "banana. a. a. ... a. "
LongPassage ==
    <<"b","a","n","a","n","a","."," ">> \o Repeat(<<"a", ".", " ">>, SmogMinSentences - 3)

RECURSIVE Concat(_)
Concat(ps) == IF ps = <<>> THEN <<>> ELSE Head(ps) \o Concat(Tail(ps))

\* the concatenations of at most n pieces of P
PieceTexts(P, n) == { Concat(ps) : ps \in UNION { [1..k -> P] : k \in 0..n } }

Texts ==
    PieceTexts(Pieces, MaxPieces) \cup { LongPassage \o t : t \in PieceTexts(Pieces, MaxPieces - 2) }

ClozeTexts == PieceTexts(ClozePieces, MaxPieces)

\* every cycle of raw values: the states a generator can be in
Tapes == [1..MaxDraw -> 0..(MaxDraw - 1)]

RECURSIVE Rotate(_, _)
Rotate(g, n) == IF n = 0 THEN g ELSE Rotate(Append(Tail(g), Head(g)), n - 1)

\* one generator, the cycle 0, 1, ..., MaxDraw-1, seeded at any position
Seeded == { Rotate([i \in 1..MaxDraw |-> i - 1], n) : n \in 0..(MaxDraw - 1) }

Scores == (0 - MaxScore)..(MaxScore + 100)

NoCall == [op |-> "none", arg |-> 0, status |-> "none", ret |-> "none"]

Call(op, arg, r) == [op |-> op, arg |-> arg, status |-> r.status, ret |-> r.ret]

\* Python's None, and a value that is not None
None == <<>>
Some(v) == <<v>>

\* no call of generate_topic_based_text is running
NoGeneration ==
    [pc |-> "idle", level |-> "none", text_length |-> "none",
     max_attempts |-> 0, attempt |-> 0, exception |-> "none",
     ret |-> <<None, None>>]

\* no button handler is running
NoPress ==
    [pc |-> "idle", target_level |-> "none", text_length |-> "none",
     max_attempts |-> 0, attempt |-> 0, calls |-> 0]

\* st.session_state as the script initialises it
NoSession ==
    [generated_text  |-> None,
     analysis_result |-> None,
     target_level    |-> "None",
     text_length     |-> "Medium (100-200 words)"]

\* the app is not in use
NoWorkflow == gen = NoGeneration /\ press = NoPress /\ session = NoSession

(***************************************************************************)
(* The engine as a state machine: a text, the generator of the process,    *)
(* and one action per function called on the text                          *)
(***************************************************************************)
Init ==
    /\ text \in Texts
    /\ rng \in Seeded
    /\ out = NoCall
    /\ score = 0
    /\ NoWorkflow

AnalyzeVocabulary ==
    LET r == analyze_vocabulary(text, rng)
    IN  /\ out' = Call("analyze_vocabulary", DefaultNumBlanks, r)
        /\ rng' = r.rng
        /\ UNCHANGED <<text, score, gen, press, session>>

CalculateTtr ==
    /\ out' = Call("calculate_ttr", 0, calculate_ttr(text))
    /\ UNCHANGED <<text, rng, score, gen, press, session>>

CalculateSmogIndex ==
    /\ out' = Call("calculate_smog_index", 0, Ok(calculate_smog_index(text)))
    /\ UNCHANGED <<text, rng, score, gen, press, session>>

CalculatePosDistribution ==
    /\ out' = Call("calculate_pos_distribution", 0,
                   Ok(calculate_pos_distribution(text)))
    /\ UNCHANGED <<text, rng, score, gen, press, session>>

Next ==
    \/ AnalyzeVocabulary
    \/ CalculateTtr
    \/ CalculateSmogIndex
    \/ CalculatePosDistribution

Spec == Init /\ [][Next]_vars

(***************************************************************************)
(* The cloze generator called on its own, with a requested blank count     *)
(***************************************************************************)
InitCloze ==
    /\ text \in ClozeTexts
    /\ rng \in Tapes
    /\ out = NoCall
    /\ score = 0
    /\ NoWorkflow

GenerateClozeTest ==
    \E num_blanks \in (-1)..MaxBlanks :
        LET r == generate_cloze_test(text, num_blanks, rng)
        IN  /\ out' = Call("generate_cloze_test", num_blanks, r)
            /\ rng' = r.rng
            /\ UNCHANGED <<text, score, gen, press, session>>

NextCloze == GenerateClozeTest

SpecCloze == InitCloze /\ [][NextCloze]_vars

(***************************************************************************)
(* The level classification applied to a given complexity score           *)
(***************************************************************************)
InitLevel ==
    /\ text = <<>>
    /\ rng \in Seeded
    /\ out = NoCall
    /\ score \in Scores
    /\ NoWorkflow

Classify ==
    /\ out' = Call("overall_level", score, Ok(overall_level(Rat(score, 100))))
    /\ UNCHANGED <<text, rng, score, gen, press, session>>

NextLevel == Classify

SpecLevel == InitLevel /\ [][NextLevel]_vars

(***************************************************************************)
(* The bigram counter and the top_bigrams field of an analysis             *)
(***************************************************************************)
\* "the cat sat. the cat ran."
BigramExample ==
    <<"t","h","e"," ","c","a","t"," ","s","a","t","."," ",
      "t","h","e"," ","c","a","t"," ","r","a","n",".">>

\* "a b c d e f g h i j k l ": twelve tokens, eleven different bigrams
BigramAlphabet ==
    <<"a"," ","b"," ","c"," ","d"," ","e"," ","f"," ",
      "g"," ","h"," ","i"," ","j"," ","k"," ","l"," ">>

BigramPieces ==
    { <<"k"," ","l"," ">>,                     \* "k l "
      <<"t","h","e"," ","c","a","t"," ">>,     \* "the cat "
      <<"s","a","t","."," ">> }                \* "sat. "

BigramTexts ==
    { prefix \o t : prefix \in {<<>>, BigramExample, BigramAlphabet},
                    t \in PieceTexts(BigramPieces, MaxPieces) }

InitBigrams ==
    /\ text \in BigramTexts
    /\ rng \in Seeded
    /\ out = NoCall
    /\ score = 0
    /\ NoWorkflow

CalculateNgramFrequency ==
    /\ out' = Call("calculate_ngram_frequency", 2,
                   Ok(calculate_ngram_frequency(text, 2)))
    /\ UNCHANGED <<text, rng, score, gen, press, session>>

NextBigrams ==
    \/ CalculateNgramFrequency
    \/ AnalyzeVocabulary

SpecBigrams == InitBigrams /\ [][NextBigrams]_vars

(***************************************************************************)
(* The metric calculators called on their own, on every short text over a  *)
(* letter, two terminal marks and the space                                *)
(***************************************************************************)
Chars == {"a", ".", "?", " "}

\* every text of at most MaxChars characters of Chars
CharTexts == UNION { [1..k -> Chars] : k \in 0..MaxChars }

InitChars ==
    /\ text \in CharTexts
    /\ rng = [i \in 1..MaxDraw |-> i - 1]
    /\ out = NoCall
    /\ score = 0
    /\ NoWorkflow

CalculateFleschKincaidGrade ==
    /\ out' = Call("calculate_flesch_kincaid_grade", 0,
                   Ok(calculate_flesch_kincaid_grade(text)))
    /\ UNCHANGED <<text, rng, score, gen, press, session>>

CalculateFleschReadingEase ==
    /\ out' = Call("calculate_flesch_reading_ease", 0,
                   Ok(calculate_flesch_reading_ease(text)))
    /\ UNCHANGED <<text, rng, score, gen, press, session>>

CalculateGunningFogIndex ==
    /\ out' = Call("calculate_gunning_fog_index", 0,
                   Ok(calculate_gunning_fog_index(text)))
    /\ UNCHANGED <<text, rng, score, gen, press, session>>

CalculateMtld ==
    /\ out' = Call("calculate_mtld", 0, Ok(calculate_mtld(text)))
    /\ UNCHANGED <<text, rng, score, gen, press, session>>

CalculateAvgSentenceLength ==
    /\ out' = Call("calculate_avg_sentence_length", 0,
                   Ok(calculate_avg_sentence_length(text)))
    /\ UNCHANGED <<text, rng, score, gen, press, session>>

CalculateClauseDensity ==
    /\ out' = Call("calculate_clause_density", 0,
                   Ok(calculate_clause_density(text)))
    /\ UNCHANGED <<text, rng, score, gen, press, session>>

NextChars ==
    \/ CalculateFleschKincaidGrade
    \/ CalculateFleschReadingEase
    \/ CalculateGunningFogIndex
    \/ CalculateSmogIndex
    \/ CalculateTtr
    \/ CalculateMtld
    \/ CalculateAvgSentenceLength
    \/ CalculateClauseDensity

SpecChars == InitChars /\ [][NextChars]_vars

(***************************************************************************)
(* The clause density of texts made of clause markers and other words      *)
(***************************************************************************)
ClausePieces ==
    { <<"a","n","d"," ">>,                         \* "and "
      <<"A","n","d"," ">>,                         \* "And "
      <<"b","a","n","d","."," ">>,                 \* "band. "
      <<"w","h","e","r","e","a","s","."," ">>,     \* "whereas. "
      <<"c","a","t","."," ">> }                    \* "cat. "

ClauseTexts == PieceTexts(ClausePieces, MaxPieces)

InitClauses ==
    /\ text \in ClauseTexts
    /\ rng = [i \in 1..MaxDraw |-> i - 1]
    /\ out = NoCall
    /\ score = 0
    /\ NoWorkflow

NextClauses == CalculateClauseDensity

SpecClauses == InitClauses /\ [][NextClauses]_vars

(***************************************************************************)
(* The lexical-diversity scan on every short sequence of three words       *)
(***************************************************************************)
MtldPieces == { <<"a"," ">>, <<"b"," ">>, <<"c"," ">> }

MtldTexts == PieceTexts(MtldPieces, MaxTokens)

InitMtld ==
    /\ text \in MtldTexts
    /\ rng = [i \in 1..MaxDraw |-> i - 1]
    /\ out = NoCall
    /\ score = 0
    /\ NoWorkflow

NextMtld == CalculateMtld

SpecMtld == InitMtld /\ [][NextMtld]_vars

(***************************************************************************)
(* The tagger on texts with a word for each of its rules                   *)
(***************************************************************************)
TaggerPieces ==
    { <<"T","h","e"," ">>,             \* "The "
      <<"i","s"," ">>,                 \* "is "
      <<"o","n","l","y"," ">>,         \* "only "
      <<"r","e","d","."," ">>,         \* "red. "
      <<"k","i","n","g"," ">>,         \* "king "
      <<"I"," ">>,                     \* "I "
      <<"c","a","t"," ">> }            \* "cat "

TaggerTexts == PieceTexts(TaggerPieces, MaxPieces)

InitTagger ==
    /\ text \in TaggerTexts
    /\ rng = [i \in 1..MaxDraw |-> i - 1]
    /\ out = NoCall
    /\ score = 0
    /\ NoWorkflow

SimplePosTagger ==
    /\ out' = Call("simple_pos_tagger", 0, Ok(simple_pos_tagger(text)))
    /\ UNCHANGED <<text, rng, score, gen, press, session>>

NextTagger ==
    \/ SimplePosTagger
    \/ CalculatePosDistribution
    \/ AnalyzeVocabulary

SpecTagger == InitTagger /\ [][NextTagger]_vars

(***************************************************************************)
(* The syllable estimator on every token of every short text over two      *)
(* vowels, a consonant, the underscore and the space                       *)
(***************************************************************************)
SyllableChars == {"a", "e", "l", "_", " "}

SyllableTexts == UNION { [1..k -> SyllableChars] : k \in 0..MaxChars }

InitSyllables ==
    /\ text \in SyllableTexts
    /\ rng = [i \in 1..MaxDraw |-> i - 1]
    /\ out = NoCall
    /\ score = 0
    /\ NoWorkflow

\* count_syllables(word) for a token of the text, as the calculators call it
CountSyllables ==
    \E i \in DOMAIN tokenize_text(text) :
        LET word == tokenize_text(text)[i]
        IN  /\ out' = Call("count_syllables", word, Ok(count_syllables(word)))
            /\ UNCHANGED <<text, rng, score, gen, press, session>>

NextSyllables == CountSyllables

SpecSyllables == InitSyllables /\ [][NextSyllables]_vars

(***************************************************************************)
(* generate_topic_based_text (src/text_generation.py): a loop of calls of  *)
(* the text-generation service, one action per pass of the loop            *)
(***************************************************************************)
\* the levels of the level selector (LEVELS)
Levels == {"A1", "A2", "B1", "B2"}

\* the choices of the length selector (TEXT_LENGTHS), the keys of
\* length_mapping
TextLengths ==
    {"Short (100-150 words)", "Medium (150-250 words)", "Long (250-350 words)"}

\* map(int, re.findall(r'\d+', length_mapping[text_length]))
word_range(text_length) ==
    CASE text_length = "Short (100-150 words)"  -> <<100, 150>>
      [] text_length = "Medium (150-250 words)" -> <<150, 250>>
      [] text_length = "Long (250-350 words)"   -> <<250, 350>>

\* len(text.split()): the number of maximal runs of non-whitespace
word_count(t) ==
    Cardinality({ i \in DOMAIN t : ~IsSpace(t[i]) /\ (i = 1 \/ IsSpace(t[i - 1])) })

\* "a. a. ... a.": 100 words, analysed as A1
HundredSentences == Repeat(<<"a", ".", " ">>, 99) \o <<"a", ".">>

\* "a a ... a": 100 words in one sentence, analysed as B2
HundredWords == Repeat(<<"a", " ">>, 99) \o <<"a">>

\* what the service hands back, stripped: nothing, text without a word,
\* a short text, texts of 100 words
GeneratedTexts ==
    { <<>>, <<".", ".", ".">>, <<"c", "a", "t">>, HundredSentences, HundredWords }

\* max_attempts of generate_topic_based_text when the caller gives none
DefaultGenerationAttempts == 3

\* generate_topic_based_text is entered: the loop starts, or with
\* max_attempts = 0 the call returns (None, None) at once
generation_call(level, text_length, max_attempts) ==
    [pc           |-> IF max_attempts > 0 THEN "loop" ELSE "returned",
     level        |-> level,
     text_length  |-> text_length,
     max_attempts |-> max_attempts,
     attempt      |-> 0,
     exception    |-> "none",
     ret          |-> <<None, None>>]

\* a pass of the loop that returns nothing: the next pass, or after the last
\* pass `return None, None`
generation_retry(g) ==
    [g EXCEPT !.attempt = g.attempt + 1,
              !.pc = IF g.attempt + 1 = g.max_attempts THEN "returned" ELSE "loop"]

\* a pass of the loop in which generate_text returned `response` and
\* analyze_vocabulary(response) had the outcome `analysis`
generation_attempt(g, response, analysis) ==
    IF response = <<>>                          \* `if text:` is false
    THEN generation_retry(g)
    ELSE IF analysis.status # "ok"              \* analyze_vocabulary raised
    THEN [g EXCEPT !.attempt = g.attempt + 1, !.pc = "raised",
                   !.exception = analysis.status]
    ELSE IF /\ word_range(g.text_length)[1] <= word_count(response)
            /\ word_count(response) <= word_range(g.text_length)[2]
            /\ analysis.ret.overall_level = g.level
    THEN [g EXCEPT !.attempt = g.attempt + 1, !.pc = "returned",
                   !.ret = <<Some(response), Some(analysis.ret)>>]
    ELSE generation_retry(g)

\* analyze_vocabulary on each text of the service in each state of the
\* generator, worked out once
generated_analyses ==
    { <<t, g, analyze_vocabulary(t, g)>> : t \in GeneratedTexts \ {<<>>}, g \in Seeded }

\* analyze_vocabulary(text) for a text of the service
analysis_of(t, g) == (CHOOSE r \in generated_analyses : r[1] = t /\ r[2] = g)[3]

\* a handler that waits for generate_topic_based_text has one more call of
\* generate_text made for it
counted(p) == IF p.pc = "running" THEN [p EXCEPT !.calls = p.calls + 1] ELSE p

\* generate_text caught an exception of the service and returned None
GenerateTextFails ==
    /\ gen.pc = "loop"
    /\ gen' = generation_retry(gen)
    /\ text' = <<>>
    /\ press' = counted(press)
    /\ UNCHANGED <<rng, out, score, session>>

\* generate_text returned a text, which the pass analyses and tests
GenerateTextReturns ==
    /\ gen.pc = "loop"
    /\ \E response \in GeneratedTexts :
       \E analysis \in { IF response = <<>>
                         THEN [status |-> "none", rng |-> rng]
                         ELSE analysis_of(response, rng) } :
          /\ gen' = generation_attempt(gen, response, analysis)
          /\ text' = response
          /\ rng' = analysis.rng
    /\ press' = counted(press)
    /\ UNCHANGED <<out, score, session>>

\* a caller enters generate_topic_based_text
CallGenerateTopicBasedText ==
    /\ gen.pc # "loop"
    /\ press.pc = "idle"
    /\ \E level \in Levels, text_length \in TextLengths,
          max_attempts \in 0..MaxAttempts :
          gen' = generation_call(level, text_length, max_attempts)
    /\ text' = <<>>
    /\ UNCHANGED <<rng, out, score, press, session>>

InitGenerate ==
    /\ text = <<>>
    /\ rng = [i \in 1..MaxDraw |-> i - 1]
    /\ out = NoCall
    /\ score = 0
    /\ NoWorkflow

NextGenerate ==
    \/ CallGenerateTopicBasedText
    \/ GenerateTextFails
    \/ GenerateTextReturns

SpecGenerate == InitGenerate /\ [][NextGenerate]_vars

(***************************************************************************)
(* adjust_text_with_attempts (src/app.py): repeated adjustment of one text *)
(* by the service until the analysed level is the target                   *)
(***************************************************************************)
\* what one call of the service does: it fails, or completes with a text
\* (stripped): nothing, text without a word, an A1 text, a B1 text
Completions ==
    { <<>>, <<".", ".", ".">>, <<"a", ".">>, <<"b", "a", "n", "a", "n", "a">> }

ServiceResponses ==
    {[failed |-> TRUE, content |-> <<>>]} \cup { [failed |-> FALSE, content |-> c] : c \in Completions }

\* the texts a user adjusts
OriginalTexts == { <<"c", "a", "t">>, <<"b", "a", "n", "a", "n", "a", ".">> }

\* adjust_vocabulary(text, target_level), the service answering `response`:
\* the stripped completion, or on any exception the text itself
adjust_vocabulary(t, target_level, response) ==
    IF response.failed THEN t ELSE response.content

\* the only element of a set of one element
TheOne(S) == CHOOSE x \in S : TRUE

\* one pass of the loop up to its tests: adjusted_text (arg) and the outcome
\* of analyze_vocabulary(adjusted_text)
analysis_of_adjusted(t, target_level, response, g) ==
    [arg |-> adjust_vocabulary(t, target_level, response)] @@ analyze_vocabulary(adjust_vocabulary(t, target_level, response), g)

\* adjust_text_with_attempts from pass `attempt` (counted from 0) of its loop
\* on, the service answering responses[attempt + 1] in that pass
RECURSIVE adjust_text_from(_, _, _, _, _, _)
adjust_text_from(t, target_level, max_attempts, responses, attempt, g) ==
    IF attempt >= max_attempts
    THEN TheOne({ [status |-> analysis.status,
                   ret    |-> IF analysis.status = "ok"
                              THEN <<t, analysis.ret, max_attempts>>
                              ELSE <<>>,
                   calls  |-> attempt,
                   rng    |-> analysis.rng] :
                  analysis \in { analyze_vocabulary(t, g) } })
    ELSE TheOne({ 
           IF analysis.status # "ok"
           THEN [status |-> analysis.status, ret |-> <<>>,
                 calls |-> attempt + 1, rng |-> analysis.rng]
           ELSE IF analysis.ret.overall_level = target_level
           THEN [status |-> "ok",
                 ret    |-> <<analysis.arg, analysis.ret, attempt + 1>>,
                 calls  |-> attempt + 1,
                 rng    |-> analysis.rng]
           ELSE IF attempt = max_attempts - 1
           THEN [status |-> "ok",
                 ret    |-> <<analysis.arg, analysis.ret, max_attempts>>,
                 calls  |-> attempt + 1,
                 rng    |-> analysis.rng]
           ELSE adjust_text_from(t, target_level, max_attempts, responses,
                                 attempt + 1, analysis.rng) :
           analysis \in { analysis_of_adjusted(t, target_level, responses[attempt + 1], g) } })

adjust_text_with_attempts(t, target_level, max_attempts, responses, g) ==
    adjust_text_from(t, target_level, max_attempts, responses, 0, g)

InitAdjust ==
    /\ text \in OriginalTexts
    /\ rng \in Seeded
    /\ out = NoCall
    /\ score = 0
    /\ NoWorkflow

AdjustTextWithAttempts ==
    /\ \E target_level \in Levels, max_attempts \in 0..MaxAttempts :
       \E responses \in [1..max_attempts -> ServiceResponses] :
       \E r \in { adjust_text_with_attempts(text, target_level, max_attempts, responses, rng) } :
          /\ out' = [op     |-> "adjust_text_with_attempts",
                     arg    |-> [target_level |-> target_level,
                                 max_attempts |-> max_attempts,
                                 responses    |-> responses,
                                 calls        |-> r.calls],
                     status |-> r.status,
                     ret    |-> r.ret]
          /\ rng' = r.rng
    /\ UNCHANGED <<text, score, gen, press, session>>

NextAdjust == AdjustTextWithAttempts

SpecAdjust == InitAdjust /\ [][NextAdjust]_vars

(***************************************************************************)
(* The handler of the Generate button (src/app.py): a loop of calls of     *)
(* generate_topic_based_text that stores the first text of the target      *)
(* level in the session                                                    *)
(***************************************************************************)
\* the call of generate_topic_based_text returned a text whose analysis has
\* the target level
generation_succeeded(g, p) ==
    /\ g.pc = "returned"
    /\ g.ret[1] # None
    /\ g.ret[2][1].overall_level = p.target_level

\* st.session_state after the four assignments of a successful iteration
session_text_only(s, g, p) ==
    [s EXCEPT !.generated_text = g.ret[1], !.analysis_result = g.ret[2]]

session_after_success(s, g, p) ==
    [generated_text  |-> g.ret[1],
     analysis_result |-> g.ret[2],
     target_level    |-> p.target_level,
     text_length     |-> p.text_length]

\* the button is pressed with the choices of the sidebar: a random topic is
\* drawn if asked for, the loop starts its first iteration and calls
\* generate_topic_based_text
PressGenerate ==
    /\ press.pc = "idle"
    /\ gen.pc # "loop"
    /\ \E target_level \in Levels, text_length \in TextLengths,
          max_attempts \in 1..MaxAttempts, random_topic \in BOOLEAN :
          /\ press' = [pc           |-> "running",
                       target_level |-> target_level,
                       text_length  |-> text_length,
                       max_attempts |-> max_attempts,
                       attempt      |-> 1,
                       calls        |-> 0]
          /\ gen' = generation_call(target_level, text_length, DefaultGenerationAttempts)
          /\ rng' = IF random_topic THEN Step(rng) ELSE rng
    /\ UNCHANGED <<text, out, score, session>>

\* the rest of an iteration, once generate_topic_based_text has returned or
\* raised: a text of the target level is stored and the loop left; anything
\* else (None, an exception, another level) goes to the next iteration, if
\* there is one
HandleGeneration ==
    /\ press.pc = "running"
    /\ gen.pc \in {"returned", "raised"}
    /\ IF generation_succeeded(gen, press)
       THEN /\ session' = session_after_success(session, gen, press)
            /\ press' = [press EXCEPT !.pc = "idle"]
            /\ gen' = NoGeneration
       ELSE /\ session' = session
            /\ IF press.attempt < press.max_attempts
               THEN /\ press' = [press EXCEPT !.attempt = press.attempt + 1]
                    /\ gen' = generation_call(press.target_level, press.text_length,
                                              DefaultGenerationAttempts)
               ELSE /\ press' = [press EXCEPT !.pc = "idle"]
                    /\ gen' = NoGeneration
    /\ UNCHANGED <<text, rng, out, score>>

InitApp ==
    /\ text = <<>>
    /\ rng = [i \in 1..MaxDraw |-> i - 1]
    /\ out = NoCall
    /\ score = 0
    /\ NoWorkflow

NextApp ==
    \/ PressGenerate
    \/ GenerateTextFails
    \/ GenerateTextReturns
    \/ HandleGeneration

SpecApp == InitApp /\ [][NextApp]_vars

(***************************************************************************)
(* Properties                                                              *)
(***************************************************************************)
IsZero(r) == r.num = 0

RECURSIVE SplitSpaces(_, _, _, _)
SplitSpaces(s, i, cur, acc) ==
    IF i > Len(s) THEN Append(acc, cur)
    ELSE IF s[i] = " " THEN SplitSpaces(s, i + 1, <<>>, Append(acc, cur))
    ELSE SplitSpaces(s, i + 1, Append(cur, s[i]), acc)

\* the positions of a cloze text: its pieces between single spaces
Positions(s) == IF s = <<>> THEN <<>> ELSE SplitSpaces(s, 1, <<>>, <<>>)

RECURSIVE SumCounts(_)
\* the sum of the counts of a histogram
SumCounts(h) ==
    IF DOMAIN h = {} THEN 0
    ELSE LET k == CHOOSE x \in DOMAIN h : TRUE
         IN  h[k] + SumCounts([x \in DOMAIN h \ {k} |-> h[x]])

NoDuplicates(s) == \A i, j \in DOMAIN s : i # j => s[i] # s[j]

LevelRank(l) == CASE l = "A1" -> 1 [] l = "A2" -> 2 [] l = "B1" -> 3 [] l = "B2" -> 4

\* C1: analyze_vocabulary on the empty string returns a complete record
\* without a fault: every numeric field 0, pos_distribution and top_bigrams
\* empty, cloze_test the empty string, blanked_words empty.
C1_EmptyTextAnalysis ==
    (out.op = "analyze_vocabulary" /\ text = <<>>) =>
        /\ out.status = "ok"
        /\ out.ret.flesch_kincaid_grade = 0
        /\ out.ret.flesch_reading_ease = 0
        /\ out.ret.gunning_fog_index = 0
        /\ out.ret.smog_index = 0
        /\ IsZero(out.ret.type_token_ratio)
        /\ IsZero(out.ret.mtld)
        /\ IsZero(out.ret.avg_sentence_length)
        /\ IsZero(out.ret.clause_density)
        /\ IsZero(out.ret.complexity_score)
        /\ DOMAIN out.ret.pos_distribution = {}
        /\ out.ret.top_bigrams = <<>>
        /\ out.ret.cloze_test = <<>>
        /\ out.ret.blanked_words = <<>>

\* C2 as claimed: in the cloze text returned by generate_cloze_test,
\* position i holds '_____' if and only if token i is one of blanked_words,
\* and holds token i otherwise; there are as many positions as tokens.
C2_BlankIffBlankedWord ==
    (out.op = "generate_cloze_test" /\ out.status = "ok") =>
        LET words   == tokenize_text(text)
            places  == Positions(out.ret[1])
            blanked == Range(out.ret[2])
        IN  /\ Len(places) = Len(words)
            /\ \A i \in DOMAIN words :
                /\ places[i] = Blank <=> words[i] \in blanked
                /\ words[i] \notin blanked => places[i] = words[i]

\* C2 amended: position i holds '_____' if and only if token i is one of
\* blanked_words or token i is itself the string '_____'; a token that is
\* not one of blanked_words is kept unchanged; there are as many positions
\* as tokens.
C2_BlankIffBlankedOrMarker ==
    (out.op = "generate_cloze_test" /\ out.status = "ok") =>
        LET words   == tokenize_text(text)
            places  == Positions(out.ret[1])
            blanked == Range(out.ret[2])
        IN  /\ Len(places) = Len(words)
            /\ \A i \in DOMAIN words :
                /\ places[i] = Blank <=> (words[i] \in blanked \/ words[i] = Blank)
                /\ words[i] \notin blanked => places[i] = words[i]

\* C2 witness: a word occurring twice is blanked at both places while
\* another token is kept
C2_Witness ==
    /\ out.op = "generate_cloze_test"
    /\ out.status = "ok"
    /\ LET words   == tokenize_text(text)
           places  == Positions(out.ret[1])
           blanked == Range(out.ret[2])
       IN  /\ \E i, j \in DOMAIN words :
                i # j /\ words[i] = words[j] /\ words[i] \in blanked
                      /\ places[i] = Blank /\ places[j] = Blank
           /\ \E k \in DOMAIN words : words[k] \notin blanked /\ places[k] = words[k]

\* C3: for a requested count n >= 0, blanked_words of generate_cloze_test
\* has no duplicate, holds only content words, and its length is
\* min(n, number of distinct content words).
C3_BlankedWordsDistinct ==
    (out.op = "generate_cloze_test" /\ out.arg >= 0) =>
        /\ out.status = "ok"
        /\ NoDuplicates(out.ret[2])
        /\ Range(out.ret[2]) \subseteq Range(content_words(text))
        /\ \A w \in Range(out.ret[2]) :
               pos_tag(w) \in {"NN", "VB", "VBD", "VBG", "RB"}
        /\ Len(out.ret[2]) = Min(out.arg, Cardinality(Range(content_words(text))))

\* C4: the counts of the POS histogram, of calculate_pos_distribution and of
\* the pos_distribution field of an analysis, sum to the number of tokens.
C4_HistogramSumsToTokens ==
    /\ out.op = "calculate_pos_distribution" =>
           SumCounts(out.ret) = Len(tokenize_text(text))
    /\ (out.op = "analyze_vocabulary" /\ out.status = "ok") =>
           SumCounts(out.ret.pos_distribution) = Len(tokenize_text(text))

\* C4 witness: a histogram of at least two tags, one of them counted twice
C4_Witness ==
    /\ out.op = "calculate_pos_distribution"
    /\ Cardinality(DOMAIN out.ret) >= 2
    /\ \E tag \in DOMAIN out.ret : out.ret[tag] >= 2

\* C5: two calls of analyze_vocabulary with the same arguments return
\* identical results in every field (the entry point has no other argument
\* than the text, so the text is all a caller can fix).
C5_SameCallSameResult ==
    [][(out.op = "analyze_vocabulary" /\ out'.op = "analyze_vocabulary")
          => out'.ret = out.ret]_vars

\* C6: an analysis call does not advance a generator state shared with
\* other calls, so that each call runs as if alone.
C6_GeneratorNotShared ==
    [][out'.op = "analyze_vocabulary" => rng' = rng]_vars

\* C7: generate_cloze_test does not fail for any num_blanks; the number of
\* blanked words is num_blanks clamped to 0..number of content words, and a
\* negative request returns the unblanked token string.
C7_NumBlanksClamped ==
    out.op = "generate_cloze_test" =>
        /\ out.status = "ok"
        /\ Len(out.ret[2]) =
               Min(IF out.arg < 0 THEN 0 ELSE out.arg, Len(content_words(text)))
        /\ out.arg < 0 => out.ret[1] = join(tokenize_text(text))

\* C8: the classification maps a score below 0.35 to A1, from 0.35 and below
\* 0.55 to A2, from 0.55 and below 0.75 to B1, from 0.75 to B2, and is
\* non-decreasing in the score.
C8_LevelPartition ==
    out.op = "overall_level" =>
        /\ out.ret \in {"A1", "A2", "B1", "B2"}
        /\ out.ret = "A1" <=> out.arg < 35
        /\ out.ret = "A2" <=> (35 <= out.arg /\ out.arg < 55)
        /\ out.ret = "B1" <=> (55 <= out.arg /\ out.arg < 75)
        /\ out.ret = "B2" <=> 75 <= out.arg
        /\ \A lower_score \in Scores :
               lower_score <= out.arg =>
                   LevelRank(overall_level(Rat(lower_score, 100)))
                       <= LevelRank(out.ret)

\* C8 witness: the score 0.35 is classified A2
C8_Witness ==
    out.op = "overall_level" /\ out.arg = 35 /\ out.ret = "A2"

\* C9: with fewer than 30 sentences calculate_smog_index returns 0 whatever
\* the words, and the complexity score of an analysis is the one computed
\* from the other three readability scores alone.
C9_SmogGuard ==
    Len(sentence_tokenize(text)) < 30 =>
        /\ out.op = "calculate_smog_index" => out.ret = 0
        /\ (out.op = "analyze_vocabulary" /\ out.status = "ok") =>
              /\ out.ret.smog_index = 0
              /\ out.ret.complexity_score =
                    complexity_score(
                        readability_score(out.ret.flesch_kincaid_grade,
                                          out.ret.flesch_reading_ease,
                                          out.ret.gunning_fog_index, 0),
                        out.ret.type_token_ratio, out.ret.avg_sentence_length,
                        out.ret.clause_density, out.ret.pos_distribution,
                        Len(tokenize_text(text)))

\* C9 witness: 29 sentences and a word of three syllables, SMOG index 0
C9_Witness ==
    /\ out.op = "calculate_smog_index"
    /\ Len(sentence_tokenize(text)) = 29
    /\ \E w \in Range(tokenize_text(text)) : count_syllables(w) >= 3
    /\ out.ret = 0

\* C10: for a text with at least one token calculate_ttr returns
\* (distinct tokens) / (tokens), above 0 and at most 1, and 1 exactly when
\* the tokens are pairwise distinct.
C10_TtrBounds ==
    (out.op = "calculate_ttr" /\ Len(tokenize_text(text)) >= 1) =>
        LET words == tokenize_text(text)
        IN  /\ out.status = "ok"
            /\ out.ret.num = Cardinality(Range(words))
            /\ out.ret.den = Len(words)
            /\ 0 < out.ret.num
            /\ out.ret.num <= out.ret.den
            /\ out.ret.num = out.ret.den <=> NoDuplicates(words)

\* C10 witness: three tokens, two of them equal
C10_Witness ==
    /\ out.op = "calculate_ttr"
    /\ out.status = "ok"
    /\ out.ret.den = 3
    /\ out.ret.num = 2

\* the number of places i at which the pair p is (token i, token i+1)
PairCount(words, p) ==
    Cardinality({ i \in 1..(Len(words) - 1) : <<words[i], words[i + 1]>> = p })

\* the first place at which the pair p occurs
PairFirst(words, p) ==
    CHOOSE i \in 1..(Len(words) - 1) :
        /\ <<words[i], words[i + 1]>> = p
        /\ \A j \in 1..(i - 1) : <<words[j], words[j + 1]>> # p

\* the pairs of consecutive tokens
Pairs(words) == { <<words[i], words[i + 1]>> : i \in 1..(Len(words) - 1) }

\* pair p comes before pair q in top_bigrams: higher count, or equal count
\* and earlier first occurrence
PairBefore(words, p, q) ==
    \/ PairCount(words, p) > PairCount(words, q)
    \/ /\ PairCount(words, p) = PairCount(words, q)
       /\ PairFirst(words, p) < PairFirst(words, q)

\* C11: the bigram table counts every pair (token i, token i+1), so its
\* counts sum to max(tokens - 1, 0); top_bigrams has at most 10 entries, the
\* pairs of highest count in descending count order, equal counts in order
\* of first occurrence; in "the cat sat. the cat ran." (the, cat) has count
\* 2 and is in top_bigrams.
C11_BigramTable ==
    LET words == tokenize_text(text)
        n     == Len(words)
    IN  /\ out.op = "calculate_ngram_frequency" =>
              /\ DOMAIN out.ret = Pairs(words)
              /\ \A p \in DOMAIN out.ret : out.ret[p] = PairCount(words, p)
              /\ SumCounts(out.ret) = IF n >= 1 THEN n - 1 ELSE 0
              /\ text = BigramExample =>
                     out.ret[<< <<"t","h","e">>, <<"c","a","t">> >>] = 2
        /\ (out.op = "analyze_vocabulary" /\ out.status = "ok") =>
              LET top == out.ret.top_bigrams
              IN  /\ Len(top) = Min(TopBigramCount, Cardinality(Pairs(words)))
                  /\ \A r \in DOMAIN top :
                        /\ top[r][1] \in Pairs(words)
                        /\ top[r][2] = PairCount(words, top[r][1])
                  /\ \A r, s \in DOMAIN top :
                        r < s => PairBefore(words, top[r][1], top[s][1])
                  /\ \A q \in Pairs(words) \ { top[r][1] : r \in DOMAIN top } :
                        \A r \in DOMAIN top : PairBefore(words, top[r][1], q)
                  /\ text = BigramExample =>
                        \E r \in DOMAIN top :
                            top[r] = << << <<"t","h","e">>, <<"c","a","t">> >>, 2 >>

\* C11 witness: more than ten different pairs, ten of them kept, the first
\* with count 2 and then pairs of equal count
C11_Witness ==
    /\ out.op = "analyze_vocabulary"
    /\ out.status = "ok"
    /\ Cardinality(Pairs(tokenize_text(text))) > TopBigramCount
    /\ Len(out.ret.top_bigrams) = TopBigramCount
    /\ out.ret.top_bigrams[1][2] = 2
    /\ out.ret.top_bigrams[2][2] = out.ret.top_bigrams[3][2]

\* the calculators that return a score rounded to one decimal
RoundedMetricOps ==
    { "calculate_flesch_kincaid_grade", "calculate_flesch_reading_ease",
      "calculate_gunning_fog_index", "calculate_smog_index" }

\* the calculators that return a quotient
RatioMetricOps ==
    { "calculate_ttr", "calculate_mtld", "calculate_avg_sentence_length",
      "calculate_clause_density" }

\* C12: on a text without tokens each metric calculator called on its own
\* returns 0 and raises nothing.
C12_ZeroTokensGiveZero ==
    Len(tokenize_text(text)) = 0 =>
        /\ out.op \in RoundedMetricOps => (out.status = "ok" /\ out.ret = 0)
        /\ out.op \in RatioMetricOps => (out.status = "ok" /\ IsZero(out.ret))

\* the segments of a text that are not empty
NonEmptySegments(t) == SelectSeq(sentence_tokenize(t), LAMBDA seg : seg # <<>>)

\* round(0.39 * (W / S) + 11.8 * (Y / W) - 15.59, 1) in tenths
FleschKincaidOf(W, Y, S) ==
    RoundDiv(39 * W * W + 1180 * Y * S - 1559 * S * W, 10 * S * W)

\* C13: for a text with at least one token, the sentence count used by the
\* readability, average-sentence-length and clause-density calculators is
\* the number of non-empty segments of the text cut at each whitespace run
\* that follows '.', '!' or '?'; whitespace after the last mark adds no
\* empty sentence.
C13_SentenceCountNonEmpty ==
    LET words == tokenize_text(text)
        S     == Len(NonEmptySegments(text))
    IN  Len(words) >= 1 =>
          /\ out.op = "calculate_avg_sentence_length" =>
                 out.ret.num * S = Len(words) * out.ret.den
          /\ out.op = "calculate_clause_density" => out.ret.den = S
          /\ out.op = "calculate_flesch_kincaid_grade" =>
                 out.ret = FleschKincaidOf(Len(words), total_syllables(words), S)

\* marker m is present in sentence s when lower-cased: at some place k the
\* characters of s from k on are those of m
MarkerPresent(s, m) ==
    \E k \in 1..Len(s) :
        \A j \in 1..Len(m) : k + j - 1 <= Len(s) /\ LowerChar(s[k + j - 1]) = m[j]

\* 1 plus the number of marker types present in sentence s
ClausesOf(s) ==
    1 + Cardinality({ m \in Range(clause_markers) : MarkerPresent(s, m) })

\* C14: calculate_clause_density gives each sentence 1 plus the number of
\* marker types, of the 13 markers, present in the lower-cased sentence (a
\* repeated marker counts once) and returns the mean over all sentences;
\* each sentence counts between 1 and 14 and the density is at least 1.
C14_ClauseDensityByMarkerType ==
    out.op = "calculate_clause_density" =>
        LET sentences == sentence_tokenize(text)
        IN  /\ Cardinality(Range(clause_markers)) = 13
            /\ Len(sentences) >= 1
            /\ out.status = "ok"
            /\ out.ret.den = Len(sentences)
            /\ out.ret.num = SumSeq([i \in DOMAIN sentences |-> ClausesOf(sentences[i])])
            /\ \A i \in DOMAIN sentences :
                   1 <= ClausesOf(sentences[i]) /\ ClausesOf(sentences[i]) <= 14
            /\ out.ret.num >= out.ret.den

\* C14 witness: a sentence in which "and" occurs twice, once capitalised,
\* counts 2 clauses, next to a sentence with the two markers of "whereas"
C14_Witness ==
    /\ out.op = "calculate_clause_density"
    /\ text = <<"A","n","d"," ","a","n","d"," ",
                "w","h","e","r","e","a","s","."," ">>
    /\ out.ret = Rat(5, 2)

\* the largest element of a set of naturals, 0 for the empty set
MaxOf(E) == IF E = {} THEN 0 ELSE CHOOSE x \in E : \A y \in E : y <= x

\* the window words[a..e] has (distinct tokens) / (length) <= 0.72
WindowCloses(words, a, e) ==
    100 * Cardinality({ words[i] : i \in a..e }) <= MtldThreshold * (e - a + 1)

\* the first token of the factor that ends at e, E the set of factor ends
FactorStart(E, e) == MaxOf({ x \in E : x < e }) + 1

\* E is the set of places at which the scan of words closes a factor: each
\* factor closes at its end and at no earlier place, and the window left
\* after the last factor never closes
IsFactorEnds(words, E) ==
    /\ \A e \in E :
          /\ WindowCloses(words, FactorStart(E, e), e)
          /\ \A m \in FactorStart(E, e)..(e - 1) :
                 ~WindowCloses(words, FactorStart(E, e), m)
    /\ \A m \in (MaxOf(E) + 1)..Len(words) : ~WindowCloses(words, MaxOf(E) + 1, m)

\* C15: calculate_mtld closes a factor exactly when the window's ratio of
\* distinct tokens is <= 0.72 and starts again from empty; it returns (sum
\* of factor lengths) / (number of factors), or the token count when no
\* factor closed; the unclosed rest adds nothing, every factor has at least
\* 2 tokens and the result is at most the token count.
C15_MtldFactors ==
    out.op = "calculate_mtld" =>
        LET words == tokenize_text(text)
            n     == Len(words)
        IN  /\ out.status = "ok"
            /\ \E E \in SUBSET (1..n) :
                  /\ IsFactorEnds(words, E)
                  /\ E = {} => out.ret = Rat(n, 1)
                  /\ E # {} => out.ret.num * Cardinality(E) = MaxOf(E) * out.ret.den
                  /\ \A e \in E : e - FactorStart(E, e) + 1 >= 2
            /\ out.ret.num <= n * out.ret.den

\* C15 witness: "a a a b a c": factors of 2 and 3 tokens, one token left
C15_Witness ==
    /\ out.op = "calculate_mtld"
    /\ Len(tokenize_text(text)) = 6
    /\ IsFactorEnds(tokenize_text(text), {2, 5})
    /\ out.ret = Rat(5, 2)

\* word w ends with the characters suf
EndsIn(w, suf) ==
    /\ Len(w) >= Len(suf)
    /\ \A j \in 1..Len(suf) : w[Len(w) - Len(suf) + j] = suf[j]

\* the rules of the tagger in their order, and the tag of each
TagRule(w, r) ==
    CASE r = 1 -> w \in { <<"t","h","e">>, <<"a">>, <<"a","n">> }
      [] r = 2 -> w \in { <<"i","s">>, <<"a","m">>, <<"a","r","e">>,
                          <<"w","a","s">>, <<"w","e","r","e">> }
      [] r = 3 -> EndsIn(w, <<"l","y">>)
      [] r = 4 -> EndsIn(w, <<"e","d">>)
      [] r = 5 -> EndsIn(w, <<"i","n","g">>)
      [] r = 6 -> w \in { <<"i">>, <<"y","o","u">>, <<"h","e">>, <<"s","h","e">>,
                          <<"i","t">>, <<"w","e">>, <<"t","h","e","y">> }
      [] r = 7 -> TRUE

RuleTags == <<"DT", "VB", "RB", "VBD", "VBG", "PRP", "NN">>

\* the tag of the first rule that matches w
FirstRuleTag(w) ==
    RuleTags[CHOOSE r \in 1..7 : TagRule(w, r) /\ \A q \in 1..(r - 1) : ~TagRule(w, q)]

\* C16: simple_pos_tagger gives each token exactly one tag of {DT, VB, RB,
\* VBD, VBG, PRP, NN}, that of the first matching rule in the order DT, VB,
\* 'ly', 'ed', 'ing', PRP, NN; JJ is never produced, so the JJ count of a
\* histogram is 0; equal tokens get equal tags.
C16_TaggerRules ==
    /\ out.op = "simple_pos_tagger" =>
          LET words  == tokenize_text(text)
              tagged == out.ret
          IN  /\ Len(tagged) = Len(words)
              /\ \A i \in DOMAIN words :
                    /\ tagged[i][1] = words[i]
                    /\ tagged[i][2] = FirstRuleTag(words[i])
                    /\ tagged[i][2] \in Range(RuleTags)
                    /\ tagged[i][2] # "JJ"
              /\ \A i, j \in DOMAIN words :
                    words[i] = words[j] => tagged[i][2] = tagged[j][2]
    /\ out.op = "calculate_pos_distribution" =>
          /\ DOMAIN out.ret \subseteq Range(RuleTags)
          /\ CountOf(out.ret, "JJ") = 0
    /\ (out.op = "analyze_vocabulary" /\ out.status = "ok") =>
          CountOf(out.ret.pos_distribution, "JJ") = 0

\* C16 witness: "only red. king " is tagged RB, VBD, VBG
C16_Witness ==
    /\ out.op = "simple_pos_tagger"
    /\ Len(out.ret) = 3
    /\ out.ret[1][2] = "RB"
    /\ out.ret[2][2] = "VBD"
    /\ out.ret[3][2] = "VBG"

\* the vowels of w that start a run of vowels: a leading vowel and every
\* vowel after a non-vowel
VowelRunStarts(w) ==
    { i \in DOMAIN w :
        w[i] \in {"a","e","i","o","u","y"}
            /\ (i = 1 \/ w[i - 1] \notin {"a","e","i","o","u","y"}) }

\* the count before the minimum of 1: minus 1 for a final 'e', plus 1 for a
\* final 'le'
SyllablesBeforeMinimum(w) ==
    Cardinality(VowelRunStarts(w))
        - (IF EndsIn(w, <<"e">>) THEN 1 ELSE 0)
        + (IF EndsIn(w, <<"l","e">>) THEN 1 ELSE 0)

\* C17: for every token count_syllables returns an integer >= 1: the vowel
\* runs, minus 1 for a final 'e', plus 1 for a final 'le', never negative,
\* raised to 1 when 0.
C17_SyllablesAtLeastOne ==
    out.op = "count_syllables" =>
        /\ out.arg # <<>>
        /\ Range(out.arg) \subseteq WordChars
        /\ out.status = "ok"
        /\ SyllablesBeforeMinimum(out.arg) >= 0
        /\ out.ret = IF SyllablesBeforeMinimum(out.arg) = 0 THEN 1
                     ELSE SyllablesBeforeMinimum(out.arg)
        /\ out.ret >= 1

\* C17 witness: the token "e" counts 1 - 1 = 0 and is raised to 1
C17_Witness ==
    /\ out.op = "count_syllables"
    /\ out.arg = <<"e">>
    /\ SyllablesBeforeMinimum(out.arg) = 0
    /\ out.ret = 1

\* C18: generate_topic_based_text makes at most max_attempts generation
\* calls; a text it returns is the one of the last call, has a word count
\* within the range of the length option and the requested level, and comes
\* with its own analysis; otherwise the call returns (None, None) after
\* exactly max_attempts calls, and in no case does it end otherwise.
C18_GenerateReturns ==
    /\ gen.attempt <= gen.max_attempts
    /\ gen.pc # "raised"
    /\ (gen.pc = "returned" /\ gen.ret[1] # None) =>
          LET returned == gen.ret[1][1]
          IN  /\ returned = text
              /\ word_range(gen.text_length)[1] <= word_count(returned)
              /\ word_count(returned) <= word_range(gen.text_length)[2]
              /\ gen.ret[2] # None
              /\ gen.ret[2][1].overall_level = gen.level
              /\ \E g \in Seeded : gen.ret[2][1] = analysis_of(returned, g).ret
    /\ (gen.pc = "returned" /\ gen.ret[1] = None) =>
          (gen.ret[2] = None /\ gen.attempt = gen.max_attempts)

\* the least number of a non-empty set of numbers
MinOf(E) == CHOOSE x \in E : \A y \in E : x <= y

\* the level analyze_vocabulary gives a text, "none" if it raises
LevelOf(t) ==
    LET analysis == analyze_vocabulary(t, [i \in 1..MaxDraw |-> 0])
    IN  IF analysis.status = "ok" THEN analysis.ret.overall_level ELSE "none"

\* the text the k-th call of adjust_vocabulary returns in the call recorded
\* in out
AdjustedText(k) == adjust_vocabulary(text, out.arg.target_level, out.arg.responses[k])

\* the passes of the recorded call whose adjusted text has the target level
MatchingPasses ==
    { k \in 1..out.arg.max_attempts : LevelOf(AdjustedText(k)) = out.arg.target_level }

\* C19: adjust_text_with_attempts with max_attempts >= 1 calls
\* adjust_vocabulary at most max_attempts times and returns: at the first
\* pass k whose adjusted text has the target level that text with
\* attempts = k, otherwise the last adjusted text with attempts =
\* max_attempts; the analysis returned is the analysis of the text returned,
\* and when every adjustment fails the text returned is the original text.
C19_AdjustReturns ==
    (out.op = "adjust_text_with_attempts" /\ out.arg.max_attempts >= 1) =>
        /\ out.arg.calls <= out.arg.max_attempts
        /\ out.status = "ok"
        /\ IF MatchingPasses # {}
           THEN /\ out.ret[3] = MinOf(MatchingPasses)
                /\ out.ret[1] = AdjustedText(MinOf(MatchingPasses))
                /\ out.arg.calls = MinOf(MatchingPasses)
           ELSE /\ out.ret[3] = out.arg.max_attempts
                /\ out.ret[1] = AdjustedText(out.arg.max_attempts)
                /\ out.arg.calls = out.arg.max_attempts
        /\ \E g \in Seeded : out.ret[2] = analyze_vocabulary(out.ret[1], g).ret
        /\ (\A k \in 1..out.arg.max_attempts : out.arg.responses[k].failed) =>
              out.ret[1] = text

\* a stored text has a stored analysis of the stored target level, and a
\* press runs at most max_attempts iterations with at most
\* DefaultGenerationAttempts calls of generate_text each
SessionConsistent ==
    /\ session.generated_text # None =>
          /\ session.analysis_result # None
          /\ session.analysis_result[1].overall_level = session.target_level
    /\ press.attempt <= press.max_attempts
    /\ gen.attempt <= gen.max_attempts
    /\ press.calls <= DefaultGenerationAttempts * press.max_attempts

\* the session changes only in an iteration whose call returned a text of
\* the target level; then all four fields are written and the loop is left
SessionWrittenOnSuccess ==
    session' # session =>
        /\ press.pc = "running"
        /\ gen.pc = "returned"
        /\ gen.ret[1] # None
        /\ gen.ret[2][1].overall_level = press.target_level
        /\ session'.generated_text = gen.ret[1]
        /\ session'.analysis_result = gen.ret[2]
        /\ session'.target_level = press.target_level
        /\ session'.text_length = press.text_length
        /\ press'.pc = "idle"

\* C20: the four session fields are written only in an iteration whose
\* analysis level is the selected target, all four together, and the loop
\* then stops; a failing or raising iteration leaves them unchanged; so a
\* stored text always has a stored analysis of the stored target level, and
\* a press runs at most max_attempts iterations and 3 x max_attempts calls.
C20_SessionWrites == []SessionConsistent /\ [][SessionWrittenOnSuccess]_vars

\* a press stored a text in its second iteration, after a first iteration
\* that failed
C20_Witness ==
    /\ press.pc = "idle"
    /\ press.attempt = 2
    /\ press.calls > DefaultGenerationAttempts
    /\ session.generated_text # None
    /\ session.target_level = press.target_level
    /\ session.text_length = press.text_length

====
